---- MODULE Spec2Model ----
(***************************************************************************)
(* Nine-grid slicing tool (src/App.tsx, second App component, lines 349 on) *)
(* The React state of the component, the async run of handleProcess with   *)
(* the slice production it awaits, the media element of the preview and    *)
(* the archive download are modelled as one state machine.  Times are in   *)
(* tenths of a second, progress is an exact fraction <<num, den>>.         *)
(***************************************************************************)
EXTENDS Integers, Sequences, FiniteSets, TLC

(* ------------------------------ bounds -------------------------------- *)
\* largest source width/height of the geometry specification
MaxDim == 8
\* run closures that can be alive at once (the start button allows one)
MaxRuns == 2
\* archive generations that can be pending at once
MaxZipJobs == 1
\* inputs of the user in one session (files picked or cleared, settings typed,
\* clicks on the start and download buttons)
MaxInputs == 4
\* latest start and end time of the frame sampler specification, in tenths of
\* a second
MaxTime == 12

(* ------------------------- program constants --------------------------- *)
\* new Array(9), for (i < 9), (i + 1) / 9
NumSlices == 9
\* Math.floor(width / 3), Math.floor(i / 3), i % 3
GridSize == 3
\* useState settings: endTime 6 (seconds), Math.min(6, ...)
DefaultEndSeconds == 6
\* useState settings: fps 10, quality 10
DefaultFps == 10
DefaultQuality == 10

Null == "null"
Slots == 0 .. (NumSlices - 1)

AppModes == {"VIDEO", "IMAGE"}

(* --------------------------- the environment --------------------------- *)
\* files the user can pick: an image, a video, one of another type
Files == {"imgA", "vidA", "docA"}

\* File.type as <<major, subtype>>
FileType(f) ==
    CASE f = "imgA" -> <<"image", "png">>
      [] f = "vidA" -> <<"video", "mp4">>
      [] OTHER      -> <<"application", "pdf">>

\* naturalWidth / videoWidth, naturalHeight / videoHeight of a decoded file
FileWidth(f)  == IF f = "imgA" THEN 7 ELSE 6
FileHeight(f) == IF f = "imgA" THEN 5 ELSE 8
\* video.duration in hundredths of a second (0 for images)
FileDuration(f) == IF f = "vidA" THEN 25 ELSE 0

\* values typed into the settings inputs (tenths of a second; fps; quality)
StartTimeInputs == {1}
EndTimeInputs   == {2}
FpsInputs       == {15}
QualityInputs   == {1}
\* the options of the fps select
FpsOptions == {5, 10, 15}

(* ------------------------------ fractions ------------------------------ *)
RECURSIVE Gcd(_, _)
Gcd(a, b) == IF b = 0 THEN a ELSE Gcd(b, a % b)

\* the number n/d, in lowest terms
Frac(n, d) == LET g == Gcd(n, d) IN <<n \div g, d \div g>>

\* Math.round of a non-negative fraction: floor(q + 1/2)
Round(q) == (2 * q[1] + q[2]) \div (2 * q[2])

FracLeq(p, q) == p[1] * q[2] <= q[1] * p[2]
FracLess(p, q) == p[1] * q[2] < q[1] * p[2]
FracAdd(p, q) == Frac(p[1] * q[2] + q[1] * p[2], p[2] * q[2])

(* ------------------------------- state --------------------------------- *)
VARIABLES
    \* React state of App (useState)
    file, previewUrl, mode, mediaInfo, settings,
    isProcessing, progress, status, results, workerBlobUrl,
    \* environment: window.GIF present, initGifWorker still fetching
    windowGIF, gifInit,
    \* the preview element (img or video): the file whose content it has
    \* decoded, and whether the load event of its current src is still due
    shown, loadPending,
    \* the closures of handleProcess that are alive, with the production awaited
    runs,
    \* zip.generateAsync promises not yet settled: the archives being built
    zipJobs,
    \* the inputs the user has made so far
    inputs,
    \* history: how the last run of handleProcess stands
    \* (idle, running, completed, failed)
    outcome,
    \* geometry specification: source dimensions and the regions computed
    gW, gH, gRegions,
    \* frame sampler specification (one call of sliceVideoToGif): its argument
    \* s, totalFrames, currentTime, the loop counter f, the times of the frames
    \* added to the gif so far, and where the call stands
    sS, sTotalFrames, sCurrentTime, sF, sFrames, sPc

reactVars == <<file, previewUrl, mode, mediaInfo, settings,
               isProcessing, progress, status, results, workerBlobUrl>>
geomVars  == <<gW, gH, gRegions>>
samplerVars == <<sS, sTotalFrames, sCurrentTime, sF, sFrames, sPc>>
appVars == <<reactVars, windowGIF, gifInit, shown, loadPending, runs, zipJobs,
             inputs, outcome>>
vars == <<file, previewUrl, mode, mediaInfo, settings,
          isProcessing, progress, status, results, workerBlobUrl,
          windowGIF, gifInit, shown, loadPending, runs, zipJobs,
          inputs, outcome, gW, gH, gRegions,
          sS, sTotalFrames, sCurrentTime, sF, sFrames, sPc>>

(* ------------------------------- values -------------------------------- *)
NoSettings == [startTime |-> -1, endTime |-> -1, fps |-> -1, quality |-> -1]

\* a slot of results that is null
NoResult == [slice |-> -1, sx |-> -1, sy |-> -1, w |-> -1, h |-> -1,
             srcW |-> -1, srcH |-> -1,
             src |-> Null, type |-> Null, settings |-> NoSettings]

\* new Array(9).fill(null)
EmptyResults == [i \in Slots |-> NoResult]

\* the status line: which message, with the slice number or the error message in it
Status(kind, n, message) == [kind |-> kind, n |-> n, message |-> message]

\* a production awaited by a run: its region, the file whose pixels it has
\* drawn (src), and whether the element it reads is still the mounted one
NoProd == [kind |-> "none", slice |-> -1, sx |-> -1, sy |-> -1, w |-> -1, h |-> -1,
           srcW |-> -1, srcH |-> -1, src |-> Null, live |-> FALSE]

NoMediaInfo == [duration |-> -1, width |-> -1, height |-> -1]

IdleRun == [pc |-> "idle", i |-> -1, mode |-> Null, mediaInfo |-> NoMediaInfo,
            chunkW |-> -1, chunkH |-> -1,
            settings |-> NoSettings, workerBlobUrl |-> Null,
            newResults |-> EmptyResults, prod |-> NoProd]

RunIds == 1 .. MaxRuns

\* the first `n` indices: the slots a prefix of length n fills
Filled(rs) == {i \in Slots : rs[i] # NoResult}
IsPrefix(rs) == \E k \in 0 .. NumSlices : Filled(rs) = {i \in Slots : i < k}

(* ---------------------------- construction ----------------------------- *)
AppInit ==
    /\ file = Null
    /\ previewUrl = Null
    /\ mode = "VIDEO"
    /\ mediaInfo = [duration |-> 0, width |-> 0, height |-> 0]
    /\ settings = [startTime |-> 0, endTime |-> DefaultEndSeconds * 10,
                   fps |-> DefaultFps, quality |-> DefaultQuality]
    /\ isProcessing = FALSE
    /\ progress = Frac(0, 1)
    /\ status = Status("", 0, "")
    /\ results = EmptyResults
    /\ workerBlobUrl = Null
    /\ windowGIF \in BOOLEAN
    /\ gifInit = "fetching"
    /\ shown = Null
    /\ loadPending = FALSE
    /\ runs = [r \in RunIds |-> IdleRun]
    /\ zipJobs = <<>>
    /\ inputs = 0
    /\ outcome = "idle"

\* no call of the frame sampler specification is under way
SamplerIdle ==
    /\ sS = NoSettings
    /\ sTotalFrames = 0
    /\ sCurrentTime = Frac(0, 1)
    /\ sF = 0
    /\ sFrames = <<>>
    /\ sPc = "idle"

Init ==
    /\ AppInit
    /\ gW = GridSize
    /\ gH = GridSize
    /\ gRegions = <<>>
    /\ SamplerIdle

(* ------------------------- the preview element ------------------------- *)
\* imageRef.current / videoRef.current: the element is mounted while a file
\* with a preview URL is shown in the matching mode
ImageRefCurrent == file # Null /\ previewUrl # Null /\ mode = "IMAGE"
VideoRefCurrent == file # Null /\ previewUrl # Null /\ mode = "VIDEO"

\* selectedFile.type.startsWith('image/')
StartsWithImage(type) == type[1] = "image"

\* Number(duration.toFixed(1)): hundredths of a second to tenths, rounded
ToFixed1(d) == (d + 5) \div 10

Min(a, b) == IF a <= b THEN a ELSE b

\* The video element leaves the page: a frame loop that seeks it keeps the
\* detached element, with the content it had.
Detach(rs) ==
    [id \in RunIds |->
        IF rs[id].prod.kind = "seek" /\ rs[id].prod.live
        THEN [rs[id] EXCEPT !.prod.live = FALSE, !.prod.src = shown]
        ELSE rs[id]]

(* ------------------------------ geometry ------------------------------- *)
\* mutant: the chunk size rounded up
ChunkCeil(size) == (size + GridSize - 1) \div GridSize

\* chunkW = Math.floor(mediaInfo.width / 3)
Chunk(size) == size \div GridSize

\* mutant: row and column exchanged
RegionTransposed(i, cw, ch) ==
    LET row == i % GridSize
        col == i \div GridSize
    IN  [sx |-> col * cw, sy |-> row * ch, w |-> cw, h |-> ch]

\* the region of slice i for chunk sizes cw x ch: row, col, sx, sy
Region(i, cw, ch) ==
    LET row == i \div GridSize
        col == i % GridSize
    IN  [sx |-> col * cw, sy |-> row * ch, w |-> cw, h |-> ch]

(* ------------------------------ handlers ------------------------------- *)
\* initGifWorker: the worker script was fetched
WorkerFetched ==
    /\ gifInit = "fetching"
    /\ gifInit' = "done"
    /\ workerBlobUrl' = "blob:worker"
    /\ UNCHANGED <<file, previewUrl, mode, mediaInfo, settings, isProcessing,
                   progress, status, results, windowGIF, shown, loadPending,
                   runs, zipJobs, inputs, outcome, geomVars, samplerVars>>

\* initGifWorker: the fetch failed
WorkerFetchFailed ==
    /\ gifInit = "fetching"
    /\ gifInit' = "done"
    /\ status' = Status("gifInitFailed", 0, "")
    /\ UNCHANGED <<file, previewUrl, mode, mediaInfo, settings, isProcessing,
                   progress, results, workerBlobUrl, windowGIF, shown, loadPending,
                   runs, zipJobs, inputs, outcome, geomVars, samplerVars>>

\* mutant: the results are kept when a file is picked during a run
ResultsKeptWhileProcessing == IF isProcessing THEN results ELSE EmptyResults

\* setResults(new Array(9).fill(null)) and setProgress(0) of handleFileChange
ResultsAfterSelect == EmptyResults
ProgressAfterSelect == Frac(0, 1)

\* handleFileChange with e.target.files[0] = f (Null: the picker was cancelled).
\* The change event only fires when the picked file differs from the shown one.
HandleFileChange(f) ==
    /\ f # file
    /\ IF f = Null
       THEN UNCHANGED <<reactVars, shown, loadPending, inputs, runs>>
       ELSE /\ inputs < MaxInputs
            /\ inputs' = inputs + 1
            /\ results' = ResultsAfterSelect
            /\ progress' = ProgressAfterSelect
            /\ status' = Status("", 0, "")
            /\ previewUrl' = f
            /\ file' = f
            /\ mode' = IF StartsWithImage(FileType(f)) THEN "IMAGE" ELSE "VIDEO"
            \* an img that gets a new src shows the old picture until the new
            \* one is decoded; a video that gets one, or a new element, is empty
            /\ shown' = IF ImageRefCurrent /\ mode' = "IMAGE" THEN shown ELSE Null
            /\ loadPending' = TRUE
            /\ runs' = IF VideoRefCurrent /\ mode' # "VIDEO" THEN Detach(runs) ELSE runs
            /\ UNCHANGED <<mediaInfo, settings, isProcessing, workerBlobUrl>>
    /\ UNCHANGED <<windowGIF, gifInit, zipJobs, outcome, geomVars, samplerVars>>

\* the reselect button: setFile(null); setPreviewUrl(null)
ClearFile ==
    /\ file # Null
    /\ inputs < MaxInputs
    /\ inputs' = inputs + 1
    /\ file' = Null
    /\ previewUrl' = Null
    /\ shown' = Null
    /\ loadPending' = FALSE
    /\ runs' = IF VideoRefCurrent THEN Detach(runs) ELSE runs
    /\ UNCHANGED <<mode, mediaInfo, settings, isProcessing, progress, status,
                   results, workerBlobUrl, windowGIF, gifInit, zipJobs,
                   outcome, geomVars, samplerVars>>

\* onImageLoad: the img element decoded its src
OnImageLoad ==
    /\ ImageRefCurrent
    /\ loadPending
    /\ mediaInfo' = [duration |-> 0, width |-> FileWidth(previewUrl),
                     height |-> FileHeight(previewUrl)]
    /\ shown' = previewUrl
    /\ loadPending' = FALSE
    /\ UNCHANGED <<file, previewUrl, mode, settings, isProcessing, progress,
                   status, results, workerBlobUrl, windowGIF, gifInit, runs,
                   zipJobs, inputs, outcome, geomVars, samplerVars>>

\* onVideoMetadata: the video element read the metadata of its src
OnVideoMetadata ==
    /\ VideoRefCurrent
    /\ loadPending
    /\ FileType(previewUrl)[1] = "video"
    /\ mediaInfo' = [duration |-> FileDuration(previewUrl),
                     width |-> FileWidth(previewUrl),
                     height |-> FileHeight(previewUrl)]
    /\ settings' = [settings EXCEPT
                      !.startTime = 0,
                      !.endTime = Min(DefaultEndSeconds * 10,
                                      ToFixed1(FileDuration(previewUrl)))]
    /\ shown' = previewUrl
    /\ loadPending' = FALSE
    /\ UNCHANGED <<file, previewUrl, mode, isProcessing, progress,
                   status, results, workerBlobUrl, windowGIF, gifInit, runs,
                   zipJobs, inputs, outcome, geomVars, samplerVars>>

\* the settings inputs, rendered in video mode only
SetSettings(s) ==
    /\ mode = "VIDEO"
    /\ s # settings
    /\ inputs < MaxInputs
    /\ inputs' = inputs + 1
    /\ settings' = s
    /\ UNCHANGED <<file, previewUrl, mode, mediaInfo, isProcessing, progress,
                   status, results, workerBlobUrl, windowGIF, gifInit, shown,
                   loadPending, runs, zipJobs, outcome, geomVars, samplerVars>>

SetStartTime == \E v \in StartTimeInputs : SetSettings([settings EXCEPT !.startTime = v])
SetEndTime   == \E v \in EndTimeInputs : SetSettings([settings EXCEPT !.endTime = v])
SetFps       == \E v \in FpsInputs : SetSettings([settings EXCEPT !.fps = v])
SetQuality   == \E v \in QualityInputs : SetSettings([settings EXCEPT !.quality = v])

(* ------------------------------ the run -------------------------------- *)
\* mutant: the start button stays enabled during a run
DisabledWithoutFileOnly == file = Null

\* the start button: disabled={!file || isProcessing}
ProcessButtonDisabled == file = Null \/ isProcessing

\* mutant: the guard of handleProcess without the worker script
FileMissing == file = Null

\* the guard of handleProcess: !file || (mode === VIDEO && !workerBlobUrl)
ResourcesNotReady == file = Null \/ (mode = "VIDEO" /\ workerBlobUrl = Null)

\* One pass of the loop body of handleProcess up to its await, for the closure
\* r and index i: the region, then sliceImage or sliceVideoToGif is called
\* (called), and either a production is awaited (ok) or an error is thrown.
BeginSlice(r, i) ==
    LET g == Region(i, r.chunkW, r.chunkH)
        p(kind) == [kind |-> kind, slice |-> i, sx |-> g.sx, sy |-> g.sy,
                    w |-> g.w, h |-> g.h,
                    srcW |-> r.mediaInfo.width, srcH |-> r.mediaInfo.height,
                    src |-> shown, live |-> TRUE]
    IN  IF r.mode = "IMAGE" /\ ImageRefCurrent
        THEN \* sliceImage: drawImage now, then canvas.toBlob
             [ok |-> TRUE, called |-> TRUE, prod |-> p("toBlob"), cause |-> ""]
        ELSE IF r.mode = "VIDEO" /\ VideoRefCurrent
        THEN \* sliceVideoToGif: reject at once, or seek the first frame
             IF ~windowGIF \/ r.workerBlobUrl = Null
             THEN [ok |-> FALSE, called |-> TRUE, prod |-> NoProd, cause |-> "gifNotReady"]
             ELSE [ok |-> TRUE, called |-> TRUE, prod |-> p("seek"), cause |-> ""]
        ELSE [ok |-> FALSE, called |-> FALSE, prod |-> NoProd, cause |-> "noMediaSource"]

\* mutant: no finally, isProcessing stays set after a failure
AbortWithoutFinally(id, i, cause) ==
    /\ status' = Status("failed", 0, cause)
    /\ isProcessing' = isProcessing
    /\ runs' = [runs EXCEPT ![id] = IdleRun]
    /\ outcome' = "failed"

\* catch and finally of handleProcess: the run `id` fails at slice i
Abort(id, i, cause) ==
    /\ status' = Status("failed", 0, cause)
    /\ isProcessing' = FALSE
    /\ runs' = [runs EXCEPT ![id] = IdleRun]
    /\ outcome' = "failed"

\* The loop of handleProcess from index i on, for the closure r of run `id`,
\* until it awaits, ends or throws; `processing` is isProcessing if it awaits.
LoopFrom(id, r, i, processing) ==
    IF i = NumSlices
    THEN /\ status' = Status("done", 0, "")
         /\ isProcessing' = FALSE
         /\ runs' = [runs EXCEPT ![id] = IdleRun]
         /\ outcome' = "completed"
    ELSE LET b == BeginSlice(r, i) IN
         IF b.ok
         THEN /\ status' = Status("processing", i + 1, "")
              /\ isProcessing' = processing
              /\ runs' = [runs EXCEPT ![id] =
                            [r EXCEPT !.pc = "await", !.i = i, !.prod = b.prod]]
              /\ outcome' = "running"
         ELSE Abort(id, i, b.cause)

\* mutant: a run starts from the results of the run before
InitialResultsKept == results

\* initialResults = new Array(9).fill(null)
InitialResults == EmptyResults

\* handleProcess, from the click to its first await
HandleProcess(id) ==
    /\ ~ProcessButtonDisabled
    /\ runs[id].pc = "idle"
    /\ \A j \in RunIds : j < id => runs[j].pc # "idle"
    /\ inputs < MaxInputs
    /\ inputs' = inputs + 1
    /\ IF ResourcesNotReady
       THEN /\ status' = Status("notReady", 0, "")
            /\ UNCHANGED <<isProcessing, progress, results, runs, outcome>>
       ELSE /\ progress' = Frac(0, 1)
            /\ results' = InitialResults
            /\ LoopFrom(id,
                        [pc |-> "await", i |-> 0, mode |-> mode,
                         mediaInfo |-> mediaInfo,
                         chunkW |-> Chunk(mediaInfo.width),
                         chunkH |-> Chunk(mediaInfo.height),
                         settings |-> settings, workerBlobUrl |-> workerBlobUrl,
                         newResults |-> InitialResults, prod |-> NoProd],
                        0, TRUE)
    /\ UNCHANGED <<file, previewUrl, mode, mediaInfo, settings, workerBlobUrl,
                   windowGIF, gifInit, shown, loadPending, zipJobs, geomVars, samplerVars>>

\* the SliceResult a production resolves with
MakeResult(p, type, s) ==
    [slice |-> p.slice, sx |-> p.sx, sy |-> p.sy, w |-> p.w, h |-> p.h,
     srcW |-> p.srcW, srcH |-> p.srcH,
     src |-> p.src, type |-> type, settings |-> s]

\* mutant: the progress rounded to a whole percentage
ProgressAfterRounded(i) == <<Round(Frac((i + 1) * 100, NumSlices)), 1>>

\* setProgress(((i + 1) / 9) * 100)
ProgressAfter(i) == Frac((i + 1) * 100, NumSlices)

\* mutant: only the new slot of the results state is written
StoreSlotOnly(id, res) ==
    LET r  == runs[id]
        nr == [r.newResults EXCEPT ![r.i] = res]
    IN  /\ results' = [results EXCEPT ![r.i] = res]
        /\ progress' = ProgressAfter(r.i)
        /\ LoopFrom(id, [r EXCEPT !.newResults = nr], r.i + 1, isProcessing)

\* the awaited production of run `id` resolved with res: store it, report
\* progress, and go on with the next index
StoreAndAdvance(id, res) ==
    LET r  == runs[id]
        nr == [r.newResults EXCEPT ![r.i] = res]
    IN  /\ results' = nr
        /\ progress' = ProgressAfter(r.i)
        /\ LoopFrom(id, [r EXCEPT !.newResults = nr], r.i + 1, isProcessing)

\* sliceImage: canvas.toBlob called back with a blob (a canvas without pixels
\* has none)
ToBlobDone(id) ==
    /\ runs[id].prod.kind = "toBlob"
    /\ runs[id].prod.w > 0 /\ runs[id].prod.h > 0
    /\ StoreAndAdvance(id, MakeResult(runs[id].prod, "image/png", NoSettings))
    /\ UNCHANGED <<file, previewUrl, mode, mediaInfo, settings, workerBlobUrl,
                   windowGIF, gifInit, shown, loadPending, zipJobs, inputs, geomVars, samplerVars>>

\* sliceImage: canvas.toBlob called back with null, the promise never settles
ToBlobNull(id) ==
    /\ runs[id].prod.kind = "toBlob"
    /\ runs' = [runs EXCEPT ![id].prod.kind = "hung"]
    /\ UNCHANGED <<reactVars, windowGIF, gifInit, shown, loadPending, zipJobs,
                   inputs, outcome, geomVars, samplerVars>>

\* sliceVideoToGif: a seek of the frame loop timed out (or the loop threw)
SeekTimeout(id) ==
    /\ runs[id].prod.kind = "seek"
    /\ Abort(id, runs[id].i, "seekTimeout")
    /\ UNCHANGED <<file, previewUrl, mode, mediaInfo, settings, progress, results,
                   workerBlobUrl, windowGIF, gifInit, shown, loadPending, zipJobs,
                   inputs, geomVars, samplerVars>>

\* what the video element of a frame loop holds
Footage(p) == IF p.live THEN shown ELSE p.src

\* sliceVideoToGif: every seek of the frame loop completed, gif.render() called.
\* 'seeked' only comes from an element that has media, and a frame without
\* pixels cannot be added; the frames show what the element holds.
FramesCaptured(id) ==
    /\ runs[id].prod.kind = "seek"
    /\ Footage(runs[id].prod) # Null
    /\ runs[id].prod.w > 0 /\ runs[id].prod.h > 0
    /\ runs' = [runs EXCEPT ![id].prod.kind = "render",
                            ![id].prod.src = Footage(runs[id].prod)]
    /\ UNCHANGED <<reactVars, windowGIF, gifInit, shown, loadPending, zipJobs,
                   inputs, outcome, geomVars, samplerVars>>

\* mutant: the clip is made with the settings of the latest render
GifFinishedLiveSettings(id) ==
    /\ runs[id].prod.kind = "render"
    /\ StoreAndAdvance(id, MakeResult(runs[id].prod, "image/gif", settings))
    /\ UNCHANGED <<file, previewUrl, mode, mediaInfo, settings, workerBlobUrl,
                   windowGIF, gifInit, shown, loadPending, zipJobs, inputs,
                   geomVars, samplerVars>>

\* sliceVideoToGif: the encoder emitted 'finished'
GifFinished(id) ==
    /\ runs[id].prod.kind = "render"
    /\ StoreAndAdvance(id, MakeResult(runs[id].prod, "image/gif", runs[id].settings))
    /\ UNCHANGED <<file, previewUrl, mode, mediaInfo, settings, workerBlobUrl,
                   windowGIF, gifInit, shown, loadPending, zipJobs, inputs, geomVars, samplerVars>>

(* ----------------------------- the archive ----------------------------- *)
\* the download button is rendered when results.every(r => r !== null)
DownloadButtonRendered == \A i \in Slots : results[i] # NoResult

\* mutant: handleDownloadAll without its guard
GuardDropped == FALSE

\* the guard of handleDownloadAll: results.some(r => r === null)
SomeResultNull == \E i \in Slots : results[i] = NoResult

\* handleDownloadAll up to its await: JSZip, folder.file per result, generateAsync
HandleDownloadAll ==
    /\ IF SomeResultNull
       THEN UNCHANGED <<status, zipJobs, inputs>>
       ELSE /\ Len(zipJobs) < MaxZipJobs
            /\ inputs < MaxInputs
            /\ inputs' = inputs + 1
            /\ status' = Status("zipping", 0, "")
            /\ zipJobs' = Append(zipJobs,
                   [folder |-> IF mode = "IMAGE" THEN "9_grid_images"
                                                ELSE "9_grid_gifs",
                    ext |-> IF mode = "IMAGE" THEN "png" ELSE "gif",
                    files |-> Cardinality({i \in Slots : results[i] # NoResult})])
    /\ UNCHANGED <<file, previewUrl, mode, mediaInfo, settings, isProcessing,
                   progress, results, workerBlobUrl, windowGIF, gifInit, shown,
                   loadPending, runs, outcome, geomVars, samplerVars>>

\* generateAsync resolved: saveAs
ZipGenerated ==
    /\ zipJobs # <<>>
    /\ zipJobs' = Tail(zipJobs)
    /\ status' = Status("downloadStarted", 0, "")
    /\ UNCHANGED <<file, previewUrl, mode, mediaInfo, settings, isProcessing,
                   progress, results, workerBlobUrl, windowGIF, gifInit, shown,
                   loadPending, runs, inputs, outcome, geomVars, samplerVars>>

\* generateAsync rejected
ZipFailed ==
    /\ zipJobs # <<>>
    /\ zipJobs' = Tail(zipJobs)
    /\ status' = Status("zipFailed", 0, "")
    /\ UNCHANGED <<file, previewUrl, mode, mediaInfo, settings, isProcessing,
                   progress, results, workerBlobUrl, windowGIF, gifInit, shown,
                   loadPending, runs, inputs, outcome, geomVars, samplerVars>>

(* --------------------------- specification ----------------------------- *)
FileChange == \E f \in Files \cup {Null} : HandleFileChange(f)
Process == \E id \in RunIds : HandleProcess(id)
ImageSliced == \E id \in RunIds : ToBlobDone(id)
ImageBlobNull == \E id \in RunIds : ToBlobNull(id)
SeekTimedOut == \E id \in RunIds : SeekTimeout(id)
FramesDone == \E id \in RunIds : FramesCaptured(id)
GifDone == \E id \in RunIds : GifFinished(id)

Next ==
    \/ WorkerFetched
    \/ WorkerFetchFailed
    \/ FileChange
    \/ ClearFile
    \/ OnImageLoad
    \/ OnVideoMetadata
    \/ SetStartTime
    \/ SetEndTime
    \/ SetFps
    \/ SetQuality
    \/ Process
    \/ ImageSliced
    \/ ImageBlobNull
    \/ SeekTimedOut
    \/ FramesDone
    \/ GifDone
    \/ HandleDownloadAll
    \/ ZipGenerated
    \/ ZipFailed

Spec == Init /\ [][Next]_vars

\* The run under the scheduling of the browser: canvas.toBlob always calls back
\* (with a blob or with null), and a seek either signals 'seeked' until the
\* frame loop is through or its 5000 ms timer fires.  Nothing in the code
\* bounds the wait for the encoder's 'finished' event.
FairSpec ==
    /\ Spec
    /\ WF_vars(ImageSliced \/ ImageBlobNull)
    /\ WF_vars(SeekTimedOut \/ FramesDone)

(* ---------------- the geometry, for all source dimensions --------------- *)
\* the partition of handleProcess applied to a gW x gH source, region by region
GeomInit ==
    /\ AppInit
    /\ gW \in GridSize .. MaxDim
    /\ gH \in GridSize .. MaxDim
    /\ gRegions = <<>>
    /\ SamplerIdle

GeomStep ==
    /\ Len(gRegions) < NumSlices
    /\ gRegions' = Append(gRegions, Region(Len(gRegions), Chunk(gW), Chunk(gH)))
    /\ UNCHANGED <<reactVars, windowGIF, gifInit, shown, loadPending, runs,
                   zipJobs, inputs, outcome, gW, gH, samplerVars>>

GeomSpec == GeomInit /\ [][GeomStep]_vars

(* ------------- the frame sampler, for all settings of a slice ----------- *)
Max(a, b) == IF a >= b THEN a ELSE b

\* a time in tenths of a second that a double holds exactly: a multiple of 0.5
ExactDouble(t) == t % 5 = 0

\* Math.max(0.1, s.endTime - s.startTime), in tenths of a second
Duration(s) == Max(1, s.endTime - s.startTime)

\* Math.max(1, Math.floor(duration * s.fps)) in exact arithmetic
FrameCount(s) == Max(1, (Duration(s) * s.fps) \div 10)

\* totalFrames as doubles can compute it: the subtraction and the product are
\* rounded unless the times are exact doubles, so a product that is a whole
\* number may come out just below it and floor to one less
TotalFrames(s) ==
    IF (Duration(s) * s.fps) % 10 = 0
       /\ ~(ExactDouble(s.startTime) /\ ExactDouble(s.endTime))
    THEN {Max(1, (Duration(s) * s.fps) \div 10 - 1), FrameCount(s)}
    ELSE {FrameCount(s)}

\* mutant: the step of two frames
StepDoubled(s) == Frac(2, s.fps)

\* step = 1 / s.fps, in seconds
Step(s) == Frac(1, s.fps)

\* currentTime > s.endTime: the sum of rounded steps that should equal endTime
\* may compare either way
PastEnd(t, s) ==
    IF t = Frac(s.endTime, 10)
    THEN BOOLEAN
    ELSE {FracLess(Frac(s.endTime, 10), t)}

\* sliceVideoToGif is called with settings s
SamplerInit ==
    /\ AppInit
    /\ gW = GridSize
    /\ gH = GridSize
    /\ gRegions = <<>>
    /\ sS \in [startTime : 0 .. MaxTime, endTime : 0 .. MaxTime,
               fps : FpsOptions, quality : {DefaultQuality}]
    /\ sTotalFrames = 0
    /\ sCurrentTime = Frac(0, 1)
    /\ sF = 0
    /\ sFrames = <<>>
    /\ sPc = "start"

\* duration, totalFrames, step, currentTime = s.startTime
SamplerBegin ==
    /\ sPc = "start"
    /\ sTotalFrames' \in TotalFrames(sS)
    /\ sCurrentTime' = Frac(sS.startTime, 10)
    /\ sF' = 0
    /\ sPc' = "loop"
    /\ UNCHANGED <<sS, sFrames, appVars, geomVars>>

\* one pass of the frame loop whose seek completed: the frame at currentTime
\* is added, currentTime += step, break if it is past endTime, f++
SeekAndCapture ==
    /\ sPc = "loop"
    /\ sF < sTotalFrames
    /\ sFrames' = Append(sFrames, sCurrentTime)
    /\ sCurrentTime' = FracAdd(sCurrentTime, Step(sS))
    /\ \E past \in PastEnd(sCurrentTime', sS) :
          IF past
          THEN sPc' = "render" /\ sF' = sF
          ELSE /\ sF' = sF + 1
               /\ sPc' = IF sF + 1 < sTotalFrames THEN "loop" ELSE "render"
    /\ UNCHANGED <<sS, sTotalFrames, appVars, geomVars>>

\* a seek of the frame loop timed out: the call rejects
SamplerSeekTimeout ==
    /\ sPc = "loop"
    /\ sF < sTotalFrames
    /\ sPc' = "rejected"
    /\ UNCHANGED <<sS, sTotalFrames, sCurrentTime, sF, sFrames, appVars, geomVars>>

SamplerNext ==
    \/ SamplerBegin
    \/ SeekAndCapture
    \/ SamplerSeekTimeout

SamplerSpec == SamplerInit /\ [][SamplerNext]_vars

(* ------------------------------ properties ----------------------------- *)
Complete(rs) == \A i \in Slots : rs[i] # NoResult
NumFilled(rs) == Cardinality(Filled(rs))
Active == {id \in RunIds : runs[id].pc # "idle"}
InFlight == {id \in RunIds : runs[id].prod.kind # "none"}

\* C1: every archive that handleDownloadAll hands to JSZip (and that saveAs
\* later delivers) was built from a result set with all 9 slots non-empty:
\* each pending archive holds 9 files.
C1_ArchiveOnlyOfCompleteSet ==
    \A k \in 1 .. Len(zipJobs) : zipJobs[k].files = NumSlices

\* an archive is being generated
C1_Witness == Len(zipJobs) > 0 /\ Complete(results)

\* C2: once a slice production of a run has failed, and until the next run
\* starts, the result set has an empty slot and no step creates an archive.
C2_FailedRunNeverPackaged ==
    /\ [](outcome = "failed" => ~Complete(results))
    /\ [][outcome = "failed" => Len(zipJobs') <= Len(zipJobs)]_vars

\* a run failed at a slice after the first, some slots are filled
C2_Witness ==
    /\ outcome = "failed"
    /\ NumFilled(results) >= 1
    /\ ~Complete(results)
    /\ Active = {}

\* C3: the non-empty slots of results (and of the copy a run fills) are
\* always the indices 0..k-1 for some k: no slot is filled above an empty one.
C3_FilledInIndexOrder ==
    /\ IsPrefix(results)
    /\ \A id \in RunIds : IsPrefix(runs[id].newResults)

\* a file was re-selected during a run, and the run has stored slices since
C3_Witness ==
    /\ file = "vidA"
    /\ results[0].src = "imgA"
    /\ results[1] # NoResult

\* C4: at most one run of handleProcess and at most one slice production are
\* alive; a run that awaits slice i has stored exactly the slices below i;
\* nothing is produced outside a run.
C4_StrictlySequential ==
    /\ Cardinality(Active) <= 1
    /\ Cardinality(InFlight) <= 1
    /\ InFlight \subseteq Active
    /\ \A id \in Active :
         /\ runs[id].prod.kind # "none"
         /\ runs[id].prod.slice = runs[id].i
         /\ Filled(runs[id].newResults) = {j \in Slots : j < runs[id].i}
         /\ isProcessing

\* a run awaits its fifth slice
C4_Witness == \E id \in RunIds : runs[id].pc = "await" /\ runs[id].i = 4

Pixels(g) == (g.sx .. (g.sx + g.w - 1)) \X (g.sy .. (g.sy + g.h - 1))

RECURSIVE AreaSum(_, _)
AreaSum(rs, n) == IF n = 0 THEN 0 ELSE rs[n].w * rs[n].h + AreaSum(rs, n - 1)

\* C5: for W, H >= 3 the regions are pairwise disjoint, and the nine of them
\* have total area 9*floor(W/3)*floor(H/3) and cover exactly
\* [0, 3*floor(W/3)) x [0, 3*floor(H/3)).
C5_RegionsPartitionTruncatedGrid ==
    LET n  == Len(gRegions)
        cw == gW \div 3
        ch == gH \div 3
    IN  /\ \A i, j \in 1 .. n :
             i < j => Pixels(gRegions[i]) \cap Pixels(gRegions[j]) = {}
        /\ n = 9 =>
             /\ AreaSum(gRegions, n) = 9 * cw * ch
             /\ UNION {Pixels(gRegions[i]) : i \in 1 .. n}
                  = (0 .. (3 * cw - 1)) \X (0 .. (3 * ch - 1))

\* all nine regions of a source with residual pixels on both edges
C5_Witness ==
    /\ Len(gRegions) = 9
    /\ gW % 3 = 2
    /\ gH % 3 = 1

\* the region claimed for index i of a W x H source
RegionOk(x, i) ==
    /\ x.slice = i
    /\ x.sx = (i % 3) * (x.srcW \div 3)
    /\ x.sy = (i \div 3) * (x.srcH \div 3)
    /\ x.w = x.srcW \div 3
    /\ x.h = x.srcH \div 3

\* C6: the production awaited for index i, and the result in slot i of
\* results and of a run's copy, are of the region row floor(i/3), col i mod 3
\* of the W x H grid the run was started with.
C6_SlotHoldsRegionOfIndex ==
    /\ \A i \in Slots : results[i] # NoResult => RegionOk(results[i], i)
    /\ \A id \in RunIds :
         /\ \A i \in Slots : runs[id].newResults[i] # NoResult
                               => RegionOk(runs[id].newResults[i], i)
         /\ runs[id].prod.kind # "none" => RegionOk(runs[id].prod, runs[id].i)

\* a complete result set of the 7 x 5 image: slot 8 is the bottom-right cell
C6_Witness ==
    /\ Complete(results)
    /\ results[8].srcW = 7
    /\ results[8].sx = 4 /\ results[8].sy = 2
    /\ results[0].sx = 0 /\ results[0].sy = 0

\* C7 as claimed: with k slots stored, the progress is the whole number
\* round(k/9*100).
C7_ProgressIsRounded ==
    NumFilled(results) > 0 =>
        progress = <<Round(Frac(NumFilled(results) * 100, 9)), 1>>

\* C7 as amended: with the slices 0..i stored, the progress is the fraction
\* (i+1)/9*100, not rounded; it is 100 when all nine are stored.
C7_ProgressIsExactFraction ==
    /\ 9 * progress[1] = NumFilled(results) * 100 * progress[2]
    /\ Complete(results) => progress = <<100, 1>>

\* five slices stored: the progress is 500/9, which is not 56
C7_Witness == NumFilled(results) = 5 /\ progress = <<500, 9>>

\* C8 as claimed: from one state of a run to the next the progress does not
\* decrease, stays within 0..100, and changes only when a slice is stored.
C8_ProgressMonotoneInRun ==
    [][(isProcessing /\ isProcessing') =>
          /\ FracLeq(progress, progress')
          /\ FracLeq(<<0, 1>>, progress') /\ FracLeq(progress', <<100, 1>>)
          /\ (progress' # progress => NumFilled(results') > NumFilled(results))]_vars

\* C9: a step that selects a file leaves results all-empty and progress 0.
C9_SelectResets ==
    [][(file' # file /\ file' # Null) =>
          (results' = EmptyResults /\ progress' = <<0, 1>>)]_vars

\* a file was selected while a run had stored slices and was still running
C9_Witness ==
    /\ results = EmptyResults
    /\ progress = <<0, 1>>
    /\ \E id \in RunIds : runs[id].pc = "await" /\ NumFilled(runs[id].newResults) >= 2

\* C10: from the failure of a slice until handleProcess is invoked again no
\* run and no slice production is alive and isProcessing is false.
C10_FailureEndsRun ==
    outcome = "failed" =>
        /\ Active = {}
        /\ InFlight = {}
        /\ isProcessing = FALSE

\* a seek timed out at a slice after the first
C10_Witness ==
    /\ outcome = "failed"
    /\ status = Status("failed", 0, "seekTimeout")
    /\ NumFilled(results) >= 1

\* the slice a run that ends in failure was at: the one whose seek timed out,
\* or the one after the slice just stored, whose production could not begin
FailedSlice(id) ==
    IF runs[id].prod.kind = "seek" THEN runs[id].i ELSE runs[id].i + 1

\* C11 as claimed: a failure status names a slice (counted from 1, as the
\* processing status does) and a cause, and when a run fails the slice named
\* is the one the run failed at.
C11_FailureNamesSliceAndCause ==
    /\ [](status.kind = "failed" =>
            (status.n \in 1 .. NumSlices /\ status.message # ""))
    /\ [][\A id \in RunIds :
            (runs[id].pc = "await" /\ runs'[id].pc = "idle" /\ outcome' = "failed")
                => (status'.n = FailedSlice(id) + 1 /\ status'.message # "")]_vars

\* C12 as claimed: a run that is processing eventually ends, completed or
\* failed, with isProcessing false again.
C12_EveryRunEnds == isProcessing ~> (~isProcessing /\ Active = {})

\* the k-th time of the sampler (k from 0): startTime + k/fps
SampleTime(s, k) == FracAdd(Frac(s.startTime, 10), Frac(k, s.fps))

\* C13: the sampler adds at most frameCount frames and, once its loop is
\* through, at least one; frame k is taken at startTime + k/fps, so the times
\* increase strictly; for startTime 0, endTime 1, fps 10 the frames are those
\* at 0.0, 0.1, ..., 0.9; and with endTime - startTime >= 0.1 the loop is never
\* left by the early stop before totalFrames frames are added.
C13_SamplerFrames ==
    /\ sPc # "idle" => Len(sFrames) <= FrameCount(sS)
    /\ sPc = "render" => Len(sFrames) >= 1
    /\ \A k \in 1 .. Len(sFrames) : sFrames[k] = SampleTime(sS, k - 1)
    /\ \A j, k \in 1 .. Len(sFrames) : j < k => FracLess(sFrames[j], sFrames[k])
    /\ (sPc = "render" /\ sS.startTime = 0 /\ sS.endTime = 10 /\ sS.fps = 10)
          => sFrames = [k \in 1 .. 10 |-> Frac(k - 1, 10)]
    /\ (sPc = "render" /\ sS.endTime - sS.startTime >= 1)
          => Len(sFrames) = sTotalFrames

\* the sampler went through 0 s .. 1 s at 10 fps
C13_Witness ==
    /\ sPc = "render"
    /\ sS.startTime = 0 /\ sS.endTime = 10 /\ sS.fps = 10
    /\ Len(sFrames) = 10

\* a step that is a click on the start button
StartClicked ==
    /\ inputs' = inputs + 1
    /\ file' = file
    /\ settings' = settings
    /\ zipJobs' = zipJobs

\* C14: in video mode without the worker script no step starts a run or sets
\* isProcessing, and a click on start leaves isProcessing false, results,
\* progress and the runs as they are; in image mode without the worker script
\* a click on start starts a run.
C14_NoVideoRunWithoutWorker ==
    [][workerBlobUrl = Null =>
         /\ mode = "VIDEO" =>
              /\ Active' \subseteq Active
              /\ isProcessing' => isProcessing
              /\ StartClicked =>
                   /\ ~isProcessing'
                   /\ results' = results
                   /\ progress' = progress
                   /\ runs' = runs
                   /\ outcome' = outcome
         /\ (mode = "IMAGE" /\ StartClicked) =>
              /\ isProcessing'
              /\ \E id \in RunIds : runs'[id].prod.kind = "toBlob"]_vars

\* start was clicked on a video while the worker script was missing
C14_Witness ==
    /\ status.kind = "notReady"
    /\ workerBlobUrl = Null
    /\ mode = "VIDEO"
    /\ file # Null
    /\ ~isProcessing

\* a content type the app supports: image/* or video/*
Supported(f) == FileType(f)[1] \in {"image", "video"}

\* C15 as claimed: a file that is neither image/* nor video/* is rejected when
\* it is selected, so it never becomes the selected file or the preview (and
\* no run can be started on it).
C15_UnsupportedTypeRejected ==
    /\ file # Null => Supported(file)
    /\ previewUrl # Null => Supported(previewUrl)

\* the clips of a result set
Clips(rs) == {i \in Slots : rs[i] # NoResult /\ rs[i].type = "image/gif"}

\* C16: all clips of a result set, in results and in the copy a run fills,
\* were produced with the same startTime, endTime, fps and quality, and those
\* of a run that is alive with the settings the run captured when it started.
C16_SettingsSnapshot ==
    /\ \A i, j \in Clips(results) : results[i].settings = results[j].settings
    /\ \A id \in RunIds :
         \A i \in Clips(runs[id].newResults) :
            /\ runs[id].newResults[i].settings = runs[id].settings
            /\ runs[id].settings # NoSettings

\* nine clips of one run during which the settings were changed
C16_Witness ==
    /\ Complete(results)
    /\ Clips(results) = Slots
    /\ settings # results[0].settings
    /\ results[8].settings = results[0].settings

\* the content type of the slices a mode produces and packages
TypeOfMode(m) == IF m = "IMAGE" THEN "image/png" ELSE "image/gif"

\* C17 as claimed: every non-empty slot of results holds a slice of the file
\* that is selected now; a complete result set holds slices of one source
\* only, and of the type that the folder and extension of the current mode,
\* under which a download packages it, stand for.
C17_ResultsOfCurrentFile ==
    /\ \A i \in Filled(results) : results[i].src = file
    /\ Complete(results) =>
         /\ \A i, j \in Slots : results[i].src = results[j].src
         /\ \A i \in Slots : results[i].type = TypeOfMode(mode)

\* C18 as claimed: a run that starts has captured the width and height of the
\* file selected at that moment, both at least 3.
C18_RunUsesDimensionsOfFile ==
    [][\A id \in RunIds :
         (runs[id].pc = "idle" /\ runs'[id].pc # "idle") =>
            /\ runs'[id].mediaInfo.width = FileWidth(file)
            /\ runs'[id].mediaInfo.height = FileHeight(file)
            /\ runs'[id].mediaInfo.width >= GridSize
            /\ runs'[id].mediaInfo.height >= GridSize]_vars

====
